---- MODULE Spec2Model ----
(***************************************************************************)
(* Cart / order / payment consistency logic of the online-cinema backend.  *)
(*                                                                         *)
(* The relational database is the shared state.  Every HTTP request is a   *)
(* coroutine with its own AsyncSession (one transaction); it is suspended  *)
(* at each awaited database round trip, so a handler is modelled as one    *)
(* action per awaited statement.  Rows written by flush() stay private to  *)
(* the request until commit(); an exception closes the session and rolls   *)
(* the transaction back.                                                   *)
(*                                                                         *)
(* Enum columns store the member NAME; a loaded attribute is the str-Enum  *)
(* member, which compares as its VALUE.  cart.items / order rows are the   *)
(* rows the relationship selects.                                          *)
(***************************************************************************)
EXTENDS Integers, Sequences, FiniteSets, TLC

\* ---------------------------------------------------------------- bounds
MaxOrders == 2          \* orders that may be created in one run
MaxIds == 2             \* length of the movie_ids list of POST /orders/

Users == {1, 2}         \* authenticated users (get_current_user)
Catalog == {1, 2}       \* ids of the rows of table movies
MovieIds == {1, 2, 3}   \* ids a client may send; 3 has no row in table movies
Slots == {1, 2}         \* requests that may be in flight together
OrderIds == 1..(MaxOrders + 1)
PaymentIds == {0, 1}    \* webhook payment_id: 0 stands for a missing/falsy id
NewPrices == {4}        \* price sent to PUT /movies/{id}

VARIABLES movies, carts, cartItems, orders, payments, reqs, accounts

vars == <<movies, carts, cartItems, orders, payments, reqs, accounts>>
db == <<movies, carts, cartItems, orders, payments>>

\* ------------------------------------------------------------ enum types
\* OrderStatusEnum(str, Enum): member name |-> value
OrderStatusEnum == [pending |-> "PENDING", paid |-> "PAID", canceled |-> "CANCELED"]

\* PaymentStatusEnum of the Payment column (database model): member name |-> value
PaymentStatusEnum == [successful |-> "successful", cancelled |-> "cancelled",
                      refunded |-> "refunded"]

\* PaymentStatusEnum of the response schema, used by the payment router
SchemaPaymentStatusEnum == [pending |-> "pending", successful |-> "successful",
                            canceled |-> "canceled", refunded |-> "refunded"]

\* ------------------------------------------------------------- responses
NoResult == [code |-> 0, detail |-> ""]
Http(c, d) == [code |-> c, detail |-> d]
\* main.py: any exception that is not an HTTPException becomes a 500
ServerError == Http(500, "Internal Server Error")

\* ------------------------------------------------------- request records
Idle == [op |-> "none", user |-> 0, movie |-> 0, ids |-> <<>>, oid |-> 0,
         st |-> "", price |-> 0, pc |-> "idle", result |-> NoResult,
         newCart |-> FALSE, movie_ids |-> {}, avail |-> {}, filtered |-> <<>>,
         rows |-> <<>>, total |-> 0]

Running(q) == q.pc \notin {"idle", "done"}

\* the response is sent and the session closed: locals and uncommitted rows go
Reply(q, res) == [Idle EXCEPT !.op = q.op, !.user = q.user, !.movie = q.movie,
                              !.ids = q.ids, !.oid = q.oid, !.st = q.st,
                              !.price = q.price, !.pc = "done", !.result = res]

\* the cart, order, payment and catalog handlers write no account table
Finish(r, res) ==
    /\ reqs' = [reqs EXCEPT ![r] = Reply(reqs[r], res)]
    /\ accounts' = accounts
Goto(r, q) ==
    /\ reqs' = [reqs EXCEPT ![r] = q]
    /\ accounts' = accounts

\* --------------------------------------------------------------- queries
RECURSIVE SumPrices(_, _)
SumPrices(f, S) ==
    IF S = {} THEN 0
    ELSE LET m == CHOOSE x \in S : TRUE IN f[m] + SumPrices(f, S \ {m})

\* a total that keeps only the last movie's price instead of adding it
TotalOfLast(rows) ==
    IF DOMAIN rows = {} THEN 0
    ELSE rows[CHOOSE m \in DOMAIN rows : \A k \in DOMAIN rows : k <= m]

\* sum(movie.price for movie in movies)
TotalOf(rows) == SumPrices(rows, DOMAIN rows)

\* select(OrderItem.movie_id).join(Order).where(Order.user_id == u, OrderItem.movie_id == m)
PurchasedRows(u, m) ==
    Cardinality({i \in 1..Len(orders) : orders[i].user = u /\ m \in DOMAIN orders[i].items})

\* select(OrderItem.movie_id).join(Order).where(Order.user_id == u)
PurchasedBy(u) ==
    {m \in MovieIds : PurchasedRows(u, m) > 0}

\* the CartItem rows of the user's cart, as the set of their movie ids
CartMovies(u) == {m \in Catalog : cartItems[u][m] > 0}

\* a Movie query that answers a row for every requested id
MovieRowsAny(ids) == [m \in ids |-> IF m \in DOMAIN movies THEN movies[m] ELSE 0]

\* select(Movie).where(Movie.id.in_(ids)): the rows, id |-> price
MovieRows(ids) == [m \in (ids \cap DOMAIN movies) |-> movies[m]]

\* ------------------------------------------------------------------ init
\* the account tables: per user id whether the User row exists and its
\* is_active, the user's ActivationToken row ("none", "valid" or "expired"),
\* the number of the user's RefreshToken rows, and the last response of an
\* account endpoint
NoAccounts ==
    [exists |-> [u \in Users |-> FALSE],
     is_active |-> [u \in Users |-> FALSE],
     activation |-> [u \in Users |-> "none"],
     refresh |-> [u \in Users |-> 0],
     last |-> [op |-> "none", user |-> 0, password_ok |-> FALSE, code |-> 0]]

\* the users behind the bearer tokens: registered, activated and logged in
SignedIn ==
    [NoAccounts EXCEPT !.exists = [u \in Users |-> TRUE],
                       !.is_active = [u \in Users |-> TRUE],
                       !.refresh = [u \in Users |-> 1]]

\* the store tables before the first request
EmptyStore ==
    /\ movies = [m \in Catalog |-> 3 + 2 * m]
    /\ carts = [u \in Users |-> 0]
    /\ cartItems = [u \in Users |-> [m \in Catalog |-> 0]]
    /\ orders = <<>>
    /\ payments = <<>>
    /\ reqs = [r \in Slots |-> Idle]

Init == EmptyStore /\ accounts = SignedIn

\* ============================================================ shopping cart
\* POST /shopping-cart/add/{movie_id}: the already-purchased query.
\* scalar_one_or_none() raises MultipleResultsFound on more than one row.
add_to_cart_purchased(r) ==
    LET q == reqs[r] n == PurchasedRows(q.user, q.movie) IN
    /\ q.pc = "add_purchased"
    /\ IF n > 1 THEN Finish(r, ServerError)
       ELSE IF n = 1 THEN Finish(r, Http(400, "Movie already purchased"))
       ELSE Goto(r, [q EXCEPT !.pc = "add_cart"])
    /\ UNCHANGED db

\* an add_to_cart without its "already in cart" loop
AlreadyInCartNever(u, m) == FALSE

\* "for item in cart.items: if item.movie_id == movie_id"
AlreadyInCart(u, m) == m \in CartMovies(u)

\* the Cart query; an existing cart's items are checked without a further await
add_to_cart_cart(r) ==
    LET q == reqs[r] IN
    /\ q.pc = "add_cart"
    /\ IF carts[q.user] > 1 THEN Finish(r, ServerError)
       ELSE IF carts[q.user] = 0 THEN Goto(r, [q EXCEPT !.pc = "add_flush"])
       ELSE IF AlreadyInCart(q.user, q.movie)
            THEN Finish(r, Http(400, "Movie already in cart"))
       ELSE Goto(r, [q EXCEPT !.pc = "add_commit"])
    /\ UNCHANGED db

\* unique=True on Cart.user_id: an INSERT waits while another open transaction
\* holds an uncommitted row with the same user_id
CartInsertWaits(r, u) ==
    \E s \in Slots \ {r} : reqs[s].newCart /\ reqs[s].user = u

\* a carts table whose user_id accepts duplicates
CartInsertConflictsNever(u) == FALSE

\* unique=True on Cart.user_id: the INSERT fails when a committed row with the
\* same user_id exists
CartInsertConflicts(u) == carts[u] > 0

\* db.add(cart); await db.flush(): INSERT INTO carts under the unique user_id
\* index.  The insert waits while another open transaction holds an uncommitted
\* cart of the same user, and fails once a committed one exists.
add_to_cart_flush(r) ==
    LET q == reqs[r] IN
    /\ q.pc = "add_flush"
    /\ ~CartInsertWaits(r, q.user)
    /\ IF CartInsertConflicts(q.user) THEN Finish(r, ServerError)
       ELSE Goto(r, [q EXCEPT !.pc = "add_commit", !.newCart = TRUE])
    /\ UNCHANGED db

\* db.add(CartItem); await db.commit(): the foreign key on movies.id rejects an
\* unknown movie and the whole transaction (a new cart included) is rolled back
add_to_cart_commit(r) ==
    LET q == reqs[r] IN
    /\ q.pc = "add_commit"
    /\ IF q.movie \notin DOMAIN movies
       THEN /\ Finish(r, ServerError)
            /\ UNCHANGED db
       ELSE /\ carts' = [carts EXCEPT ![q.user] = IF q.newCart THEN @ + 1 ELSE @]
            /\ cartItems' = [cartItems EXCEPT ![q.user][q.movie] = @ + 1]
            /\ Finish(r, Http(200, "Movie added to cart"))
            /\ UNCHANGED <<movies, orders, payments>>

\* DELETE /shopping-cart/remove/{movie_id}: the CartItem query
remove_from_cart_select(r) ==
    LET q == reqs[r]
        n == IF q.movie \in Catalog THEN cartItems[q.user][q.movie] ELSE 0 IN
    /\ q.pc = "remove_select"
    /\ IF n > 1 THEN Finish(r, ServerError)
       ELSE IF n = 0 THEN Finish(r, Http(400, "Movie not in cart"))
       ELSE Goto(r, [q EXCEPT !.pc = "remove_commit"])
    /\ UNCHANGED db

\* await db.delete(item); await db.commit(): a row already deleted by another
\* request makes the DELETE match nothing (StaleDataError)
remove_from_cart_commit(r) ==
    LET q == reqs[r] IN
    /\ q.pc = "remove_commit"
    /\ IF cartItems[q.user][q.movie] = 0
       THEN /\ Finish(r, ServerError)
            /\ UNCHANGED db
       ELSE /\ cartItems' = [cartItems EXCEPT ![q.user][q.movie] = @ - 1]
            /\ Finish(r, Http(200, "Movie removed from cart"))
            /\ UNCHANGED <<movies, carts, orders, payments>>

\* GET /shopping-cart/: the CartItem query, then the Movie query
get_cart_items(r) ==
    LET q == reqs[r] IN
    /\ q.pc = "list_items"
    /\ Goto(r, [q EXCEPT !.pc = "list_movies", !.movie_ids = CartMovies(q.user)])
    /\ UNCHANGED db

get_cart_movies(r) ==
    LET q == reqs[r] IN
    /\ q.pc = "list_movies"
    /\ reqs' = [reqs EXCEPT ![r] = [Reply(q, Http(200, "")) EXCEPT
                                     !.movie_ids = DOMAIN MovieRows(q.movie_ids)]]
    /\ accounts' = accounts
    /\ UNCHANGED db

\* DELETE /shopping-cart/clear: the CartItem query
clear_cart_select(r) ==
    LET q == reqs[r] IN
    /\ q.pc = "clear_select"
    /\ Goto(r, [q EXCEPT !.pc = "clear_commit", !.rows = cartItems[q.user]])
    /\ UNCHANGED db

\* await db.delete(item) for each selected row; await db.commit()
clear_cart_commit(r) ==
    LET q == reqs[r] IN
    /\ q.pc = "clear_commit"
    /\ IF \E m \in Catalog : cartItems[q.user][m] < q.rows[m]
       THEN /\ Finish(r, ServerError)
            /\ UNCHANGED db
       ELSE /\ cartItems' = [cartItems EXCEPT ![q.user] =
                                [m \in Catalog |-> cartItems[q.user][m] - q.rows[m]]]
            /\ Finish(r, Http(200, "Cart cleared"))
            /\ UNCHANGED <<movies, carts, orders, payments>>

\* ================================================================== orders
\* a committed Order row together with its OrderItem rows (movie_id |-> price_at_order)
NewOrder(u, status, total, rows) ==
    [user |-> u, status |-> status, total_amount |-> total, items |-> rows]

\* a checkout without its empty-cart guard
CartIsEmptyNever(u) == FALSE

\* "if not cart or not cart.items"
CartIsEmpty(u) == carts[u] = 0 \/ CartMovies(u) = {}

\* an insert that overwrites the newest order instead of adding a row
InsertOrderOverwriting(o) ==
    IF orders = <<>> THEN <<o>> ELSE [orders EXCEPT ![Len(orders)] = o]

\* db.add(new_order) and its OrderItems, committed: a new row, the next id
InsertOrder(o) == Append(orders, o)

\* status=OrderStatusEnum.paid of create_order_from_cart (the member's name,
\* as the column stores it)
CartOrderStatus == "paid"

\* a create_order that marks its order paid
SelectionOrderStatusPaid == "paid"

\* status=OrderStatusEnum.pending of create_order
SelectionOrderStatus == "pending"

\* POST /orders/from-cart: the Cart query and the empty-cart guard
create_order_from_cart_cart(r) ==
    LET q == reqs[r] IN
    /\ q.pc = "fc_cart"
    /\ IF carts[q.user] > 1 THEN Finish(r, ServerError)
       ELSE IF CartIsEmpty(q.user)
       THEN Finish(r, Http(400, "Cart is empty"))
       ELSE Goto(r, [q EXCEPT !.pc = "fc_purchased", !.movie_ids = CartMovies(q.user)])
    /\ UNCHANGED db

\* a checkout that orders every movie of the cart, purchased or not
AvailableIdsAll(u, movie_ids) == movie_ids

\* the already-purchased query restricted to the cart's movies, and
\* available_ids = [mid for mid in movie_ids if mid not in already_purchased]
AvailableIds(u, movie_ids) ==
    LET already_purchased == {m \in movie_ids : PurchasedRows(u, m) > 0}
    IN {mid \in movie_ids : mid \notin already_purchased}

create_order_from_cart_purchased(r) ==
    LET q == reqs[r]
        available_ids == AvailableIds(q.user, q.movie_ids) IN
    /\ q.pc = "fc_purchased"
    /\ IF available_ids = {}
       THEN Finish(r, Http(400, "All movies already purchased"))
       ELSE Goto(r, [q EXCEPT !.pc = "fc_movies", !.avail = available_ids])
    /\ UNCHANGED db

\* the Movie query and total_amount = sum(movie.price for movie in movies)
create_order_from_cart_movies(r) ==
    LET q == reqs[r] rows == MovieRows(q.avail) IN
    /\ q.pc = "fc_movies"
    /\ Goto(r, [q EXCEPT !.pc = "fc_flush", !.rows = rows, !.total = TotalOf(rows)])
    /\ UNCHANGED db

\* db.add(new_order); await db.flush(): the Order row is written inside the
\* still open transaction
create_order_from_cart_flush(r) ==
    LET q == reqs[r] IN
    /\ q.pc = "fc_flush"
    /\ Goto(r, [q EXCEPT !.pc = "fc_commit"])
    /\ UNCHANGED db

\* what "for item in cart.items: db.delete(item)" leaves of the cart's rows:
\* AsyncSession.delete is a coroutine function and the call is not awaited, so
\* no row is marked for deletion
CartAfterCheckout(items) == items

\* db.add(OrderItem(...)) for each movie, the delete loop, await db.commit()
create_order_from_cart_commit(r) ==
    LET q == reqs[r] IN
    /\ q.pc = "fc_commit"
    /\ orders' = InsertOrder(NewOrder(q.user, CartOrderStatus, q.total, q.rows))
    /\ cartItems' = [cartItems EXCEPT ![q.user] = CartAfterCheckout(@)]
    /\ Finish(r, Http(201, ""))
    /\ UNCHANGED <<movies, carts, payments>>

\* a create_order that does not exclude purchased movies
FilteredIdsAll(u, movie_ids) == movie_ids

\* filtered_ids = [mid for mid in movie_ids if mid not in already_purchased]
FilteredIds(u, movie_ids) ==
    LET already_purchased == PurchasedBy(u)
    IN SelectSeq(movie_ids, LAMBDA mid : mid \notin already_purchased)

\* POST /orders/ {movie_ids}: "if not movie_ids", then the already-purchased
\* query and filtered_ids
create_order_purchased(r) ==
    LET q == reqs[r]
        filtered_ids == FilteredIds(q.user, q.ids) IN
    /\ q.pc = "co_purchased"
    /\ IF q.ids = <<>> THEN Finish(r, Http(400, "No movies selected."))
       ELSE IF filtered_ids = <<>>
            THEN Finish(r, Http(400, "All movies already purchased."))
       ELSE Goto(r, [q EXCEPT !.pc = "co_movies", !.filtered = filtered_ids])
    /\ UNCHANGED db

\* the Movie query; "if not movies"; total_amount
create_order_movies(r) ==
    LET q == reqs[r]
        rows == MovieRows({q.filtered[i] : i \in 1..Len(q.filtered)}) IN
    /\ q.pc = "co_movies"
    /\ IF DOMAIN rows = {} THEN Finish(r, Http(404, "No available movies found."))
       ELSE Goto(r, [q EXCEPT !.pc = "co_flush", !.rows = rows, !.total = TotalOf(rows)])
    /\ UNCHANGED db

\* db.add(new_order); await db.flush(); await db.refresh(new_order)
create_order_flush(r) ==
    LET q == reqs[r] IN
    /\ q.pc = "co_flush"
    /\ Goto(r, [q EXCEPT !.pc = "co_commit"])
    /\ UNCHANGED db

\* db.add(OrderItem(...)) for each movie; await db.commit()
create_order_commit(r) ==
    LET q == reqs[r] IN
    /\ q.pc = "co_commit"
    /\ orders' = InsertOrder(NewOrder(q.user, SelectionOrderStatus, q.total, q.rows))
    /\ Finish(r, Http(201, ""))
    /\ UNCHANGED <<movies, carts, cartItems, payments>>

\* order.status as the handler sees it: the loaded OrderStatusEnum member,
\* a str that compares as its value
LoadedStatus(o) == OrderStatusEnum[o.status]

\* a cancel_order without its status guard
CancelRejectsNever(o) == FALSE

\* the guard "order.status != 'pending'" of cancel_order
CancelRejects(o) == LoadedStatus(o) # "pending"

\* an Order query without the user_id condition
OwnOrderAnyUser(u, oid) == oid \in 1..Len(orders)

\* select(Order).where(Order.id == order_id, Order.user_id == current_user.id)
OwnOrder(u, oid) == oid \in 1..Len(orders) /\ orders[oid].user = u

\* DELETE /orders/{order_id}: the Order query and the two guards; past them
\* order.status = "canceled" and await db.commit()
cancel_order(r) ==
    LET q == reqs[r] IN
    IF q.pc = "cancel_select"
    THEN /\ q.pc = "cancel_select"
         /\ IF ~OwnOrder(q.user, q.oid) THEN Finish(r, Http(404, "Order not found"))
            ELSE IF CancelRejects(orders[q.oid])
                 THEN Finish(r, Http(400, "Cannot cancel paid/canceled order"))
            ELSE Goto(r, [q EXCEPT !.pc = "cancel_commit"])
         /\ UNCHANGED db
    ELSE /\ q.pc = "cancel_commit"
         /\ orders' = [orders EXCEPT ![q.oid].status = "canceled"]
         /\ Finish(r, Http(204, ""))
         /\ UNCHANGED <<movies, carts, cartItems, payments>>

\* ================================================================ payments
\* getattr(order, name): Order maps id, user_id, created_at, status,
\* total_amount and its relationships; reading anything else raises AttributeError
OrderColumns == {"id", "user_id", "created_at", "status", "total_amount"}

\* a value bound to the Payment.status column: the PostgreSQL enum type holds
\* the member names of the column's PaymentStatusEnum and rejects any other label
PaymentStatusAccepted(v) == v \in DOMAIN PaymentStatusEnum

\* select(Payment).where(Payment.order_id == oid, Payment.status == pending)
PendingPayments(oid) ==
    {i \in 1..Len(payments) : payments[i].order_id = oid
                               /\ payments[i].status = SchemaPaymentStatusEnum.pending}

\* an initiate_payment without its status guard
InitiateRejectsNever(o) == FALSE

\* the guard "order.status != 'pending'" of initiate_payment
InitiateRejects(o) == LoadedStatus(o) # "pending"

\* POST /payments/initiate: the Order query and its guards; then the query for
\* an existing pending Payment; then Payment(amount=order.total_price, ...),
\* db.add(payment) and await db.commit()
initiate_payment(r) ==
    LET q == reqs[r] IN
    /\ q.pc \in {"init_select", "init_existing", "init_commit"}
    /\ IF q.pc = "init_select"
       THEN /\ IF ~OwnOrder(q.user, q.oid) THEN Finish(r, Http(404, "Order not found"))
               ELSE IF InitiateRejects(orders[q.oid])
                    THEN Finish(r, Http(400, "Cannot initiate payment for paid/canceled order"))
               ELSE Goto(r, [q EXCEPT !.pc = "init_existing"])
            /\ UNCHANGED db
       ELSE IF q.pc = "init_existing"
       THEN /\ IF ~PaymentStatusAccepted(SchemaPaymentStatusEnum.pending)
               THEN Finish(r, ServerError)
               ELSE IF Cardinality(PendingPayments(q.oid)) > 1 THEN Finish(r, ServerError)
               ELSE IF PendingPayments(q.oid) # {}
                    THEN Finish(r, Http(400, "Payment already initiated"))
               ELSE IF "total_price" \notin OrderColumns THEN Finish(r, ServerError)
               ELSE Goto(r, [q EXCEPT !.pc = "init_commit",
                                      !.total = orders[q.oid].total_amount])
            /\ UNCHANGED db
       ELSE /\ payments' = Append(payments,
                                  [order_id |-> q.oid, user_id |-> q.user,
                                   amount |-> q.total,
                                   status |-> SchemaPaymentStatusEnum.pending])
            /\ Finish(r, Http(200, ""))
            /\ UNCHANGED <<movies, carts, cartItems, orders>>

\* a webhook that lets any status through its payload check
WebhookStatusesAny == {"successful", "canceled", "refunded", "bogus"}

\* the statuses the webhook accepts
WebhookStatuses == {"successful", "canceled", "refunded"}

\* a webhook that settles the pending orders when it is told "successful"
mock_payment_webhook_settling(r) ==
    LET q == reqs[r] IN
    /\ q.pc \in {"wh_select", "wh_commit"}
    /\ orders' = [i \in DOMAIN orders |->
                    IF q.st = "successful" /\ orders[i].status = "pending"
                    THEN [orders[i] EXCEPT !.status = "paid"] ELSE orders[i]]
    /\ Finish(r, Http(200, "Payment status updated"))
    /\ UNCHANGED <<movies, carts, cartItems, payments>>

\* POST /payments/webhook: payload validation and the Payment query; then
\* payment.status = new_status and await db.commit(); the e-mail that follows
\* is sent inside try/except and cannot change the response
mock_payment_webhook(r) ==
    LET q == reqs[r] IN
    /\ q.pc \in {"wh_select", "wh_commit"}
    /\ IF q.pc = "wh_select"
       THEN /\ IF q.oid = 0 \/ q.st \notin WebhookStatuses
               THEN Finish(r, Http(400, "Missing or invalid payment_id or status"))
               ELSE IF q.oid \notin 1..Len(payments)
                    THEN Finish(r, Http(404, "Payment not found"))
               ELSE Goto(r, [q EXCEPT !.pc = "wh_commit"])
            /\ UNCHANGED db
       ELSE IF ~PaymentStatusAccepted(q.st)
       THEN /\ Finish(r, ServerError)
            /\ UNCHANGED db
       ELSE /\ payments' = [payments EXCEPT ![q.oid].status = q.st]
            /\ Finish(r, Http(200, "Payment status updated"))
            /\ UNCHANGED <<movies, carts, cartItems, orders>>

\* ============================================================ admin lists
\* UserGroup.name of each user's group: user 1 is an ordinary user, user 2 an
\* administrator
UserGroupOf == [u \in Users |-> IF u = 1 THEN "USER" ELSE "ADMIN"]

\* getattr(current_user, name): the columns and relationships User maps;
\* reading anything else raises AttributeError
UserAttributes ==
    {"id", "email", "hashed_password", "is_active", "created_at", "updated_at",
     "group_id", "group", "profile", "orders", "payments", "favorites", "cart",
     "activation_tokens", "reset_password_tokens", "refresh_tokens"}

\* get_current_admin_or_moderator: "if current_user.role not in (...)"; the
\* response that ends the request, or NoResult when the caller may pass.  The
\* group name stands for the role a User would carry.
AdminGuard(u) ==
    IF "role" \notin UserAttributes THEN ServerError
    ELSE IF UserGroupOf[u] \notin {"admin", "moderator"}
         THEN Http(403, "Insufficient permissions")
    ELSE NoResult

\* GET /orders/admin: the dependency, then the Order query and one
\* OrderResponse(total_price=order.total_price, ...) per order
get_all_orders_admin(r) ==
    LET q == reqs[r] IN
    /\ q.pc = "admin_orders"
    /\ IF AdminGuard(q.user) # NoResult THEN Finish(r, AdminGuard(q.user))
       ELSE IF orders # <<>> /\ "total_price" \notin OrderColumns
            THEN Finish(r, ServerError)
       ELSE Finish(r, Http(200, ""))
    /\ UNCHANGED db

\* GET /payments/admin: the dependency, then the Payment query
get_all_payments_for_admin(r) ==
    LET q == reqs[r] IN
    /\ q.pc = "admin_payments"
    /\ IF AdminGuard(q.user) # NoResult THEN Finish(r, AdminGuard(q.user))
       ELSE Finish(r, Http(200, ""))
    /\ UNCHANGED db

\* ================================================================ accounts
\* the answer of an account endpoint
Answer(op, u, ok, c) == [op |-> op, user |-> u, password_ok |-> ok, code |-> c]

\* POST /accounts/register/: existing e-mail, password complexity, then the
\* inactive User and its ActivationToken (expires in 24 hours) in one commit
register_user(u, strong) ==
    /\ IF accounts.exists[u]
       THEN accounts' = [accounts EXCEPT !.last = Answer("register", u, FALSE, 400)]
       ELSE IF ~strong
       THEN accounts' = [accounts EXCEPT !.last = Answer("register", u, FALSE, 400)]
       ELSE accounts' = [accounts EXCEPT !.exists[u] = TRUE,
                                         !.is_active[u] = FALSE,
                                         !.activation[u] = "valid",
                                         !.last = Answer("register", u, FALSE, 201)]
    /\ UNCHANGED <<db, reqs>>

\* POST /accounts/reset-activation/: ActivationToken.user_id is unique, so the
\* INSERT fails while the user's earlier token row exists
resend_activation(u) ==
    /\ IF ~accounts.exists[u]
       THEN accounts' = [accounts EXCEPT !.last = Answer("resend", u, FALSE, 404)]
       ELSE IF accounts.is_active[u]
       THEN accounts' = [accounts EXCEPT !.last = Answer("resend", u, FALSE, 400)]
       ELSE IF accounts.activation[u] # "none"
       THEN accounts' = [accounts EXCEPT !.last = Answer("resend", u, FALSE, 500)]
       ELSE accounts' = [accounts EXCEPT !.activation[u] = "valid",
                                         !.last = Answer("resend", u, FALSE, 200)]
    /\ UNCHANGED <<db, reqs>>

\* a login that does not look at is_active
LoginRefusedNever(u) == FALSE

\* "if not user.is_active" of login
LoginRefused(u) == ~accounts.is_active[u]

\* POST /accounts/login/: the credentials check, the is_active check, then
\* the RefreshToken row (user_id unique) and the commit
login(u, password_ok) ==
    /\ IF ~accounts.exists[u] \/ ~password_ok
       THEN accounts' = [accounts EXCEPT !.last = Answer("login", u, password_ok, 401)]
       ELSE IF LoginRefused(u)
       THEN accounts' = [accounts EXCEPT !.last = Answer("login", u, password_ok, 403)]
       ELSE IF accounts.refresh[u] > 0
       THEN accounts' = [accounts EXCEPT !.last = Answer("login", u, password_ok, 500)]
       ELSE accounts' = [accounts EXCEPT !.refresh[u] = @ + 1,
                                         !.last = Answer("login", u, password_ok, 200)]
    /\ UNCHANGED <<db, reqs>>

\* POST /accounts/logout/ with the user's refresh token
logout(u) ==
    /\ accounts' = [accounts EXCEPT !.refresh[u] = 0,
                                    !.last = Answer("logout", u, FALSE, 200)]
    /\ UNCHANGED <<db, reqs>>

\* GET /accounts/activate/{token} with the token of user u.  expires_at is a
\* timezone-aware column compared with the naive datetime.utcnow(): with a
\* driver that returns aware values the comparison raises TypeError
activate_user(u, comparable) ==
    /\ IF accounts.activation[u] = "none"
       THEN accounts' = [accounts EXCEPT !.last = Answer("activate", u, FALSE, 400)]
       ELSE IF ~comparable
       THEN accounts' = [accounts EXCEPT !.last = Answer("activate", u, FALSE, 500)]
       ELSE IF accounts.activation[u] = "expired"
       THEN accounts' = [accounts EXCEPT !.last = Answer("activate", u, FALSE, 400)]
       ELSE IF accounts.is_active[u]
       THEN accounts' = [accounts EXCEPT !.last = Answer("activate", u, FALSE, 200)]
       ELSE accounts' = [accounts EXCEPT !.is_active[u] = TRUE,
                                         !.activation[u] = "none",
                                         !.last = Answer("activate", u, FALSE, 200)]
    /\ UNCHANGED <<db, reqs>>

\* PUT /accounts/admin/activate-user/{user_id}
activate_user_admin(u) ==
    /\ IF ~accounts.exists[u]
       THEN accounts' = [accounts EXCEPT !.last = Answer("activate_admin", u, FALSE, 404)]
       ELSE IF accounts.is_active[u]
       THEN accounts' = [accounts EXCEPT !.last = Answer("activate_admin", u, FALSE, 200)]
       ELSE accounts' = [accounts EXCEPT !.is_active[u] = TRUE,
                                         !.last = Answer("activate_admin", u, FALSE, 200)]
    /\ UNCHANGED <<db, reqs>>

\* 24 hours pass after the token was issued: expires_at < datetime.utcnow()
token_expires(u) ==
    /\ accounts.activation[u] = "valid"
    /\ accounts' = [accounts EXCEPT !.activation[u] = "expired"]
    /\ UNCHANGED <<db, reqs>>

\* ================================================================= catalog
\* PUT /movies/{movie_id}: the attributes are set on the loaded row, but the
\* handler neither commits nor returns the row, so the session is closed with
\* the change unsaved and the empty return value fails response validation
update_movie(r) ==
    LET q == reqs[r] IN
    /\ q.pc = "update_select"
    /\ IF q.movie \notin DOMAIN movies THEN Finish(r, Http(404, "Movie not found"))
       ELSE Finish(r, ServerError)
    /\ UNCHANGED db

\* ================================================================ sessions
\* a database error at an awaited statement: the exception leaves the handler,
\* the session context manager closes the session and the transaction is
\* rolled back
session_error(r) ==
    /\ Running(reqs[r])
    /\ Finish(r, ServerError)
    /\ UNCHANGED db

\* the response has been sent: the dependency's "async with" block is left and
\* the request is over
respond(r) ==
    /\ reqs[r].pc = "done"
    /\ reqs' = [reqs EXCEPT ![r] = Idle]
    /\ UNCHANGED <<db, accounts>>

\* ================================================================ requests
\* movie_ids lists: the handlers use a list only through membership, IN (...)
\* and emptiness, so lists are drawn in nondecreasing order
Selections ==
    UNION {{s \in [1..n -> MovieIds] : \A i \in 1..(n - 1) : s[i] <= s[i + 1]}
           : n \in 0..MaxIds}

Req(op, u, pc) == [Idle EXCEPT !.op = op, !.user = u, !.pc = pc]

Requests ==
    {[Req("add", u, "add_purchased") EXCEPT !.movie = m] : u \in Users, m \in MovieIds}
    \cup {[Req("remove", u, "remove_select") EXCEPT !.movie = m] : u \in Users, m \in MovieIds}
    \cup {Req("list", u, "list_items") : u \in Users}
    \cup {Req("clear", u, "clear_select") : u \in Users}
    \cup {Req("from_cart", u, "fc_cart") : u \in Users}
    \cup {[Req("create", u, "co_purchased") EXCEPT !.ids = s] : u \in Users, s \in Selections}
    \cup {[Req("cancel", u, "cancel_select") EXCEPT !.oid = o] : u \in Users, o \in OrderIds}
    \cup {[Req("initiate", u, "init_select") EXCEPT !.oid = o] : u \in Users, o \in OrderIds}
    \cup {Req("admin_orders", u, "admin_orders") : u \in Users}
    \cup {Req("admin_payments", u, "admin_payments") : u \in Users}
    \cup {[Req("webhook", 0, "wh_select") EXCEPT !.oid = p, !.st = st]
           : p \in PaymentIds, st \in WebhookStatuses \cup {"bogus"}}
    \cup {[Req("update_movie", 0, "update_select") EXCEPT !.movie = m, !.price = p]
           : m \in MovieIds, p \in NewPrices}

Creates(q) == q.op \in {"from_cart", "create"}

\* a request arrives; order-creating requests are admitted while the run's
\* budget of orders lasts
Start(r, q) ==
    /\ reqs[r].pc = "idle"
    /\ Creates(q) =>
         Len(orders) + Cardinality({s \in Slots : Running(reqs[s]) /\ Creates(reqs[s])})
            < MaxOrders
    /\ reqs' = [reqs EXCEPT ![r] = q]
    /\ UNCHANGED <<db, accounts>>

Step(r) ==
    \/ add_to_cart_purchased(r)
    \/ add_to_cart_cart(r)
    \/ add_to_cart_flush(r)
    \/ add_to_cart_commit(r)
    \/ remove_from_cart_select(r)
    \/ remove_from_cart_commit(r)
    \/ get_cart_items(r)
    \/ get_cart_movies(r)
    \/ clear_cart_select(r)
    \/ clear_cart_commit(r)
    \/ create_order_from_cart_cart(r)
    \/ create_order_from_cart_purchased(r)
    \/ create_order_from_cart_movies(r)
    \/ create_order_from_cart_flush(r)
    \/ create_order_from_cart_commit(r)
    \/ create_order_purchased(r)
    \/ create_order_movies(r)
    \/ create_order_flush(r)
    \/ create_order_commit(r)
    \/ cancel_order(r)
    \/ initiate_payment(r)
    \/ mock_payment_webhook(r)
    \/ update_movie(r)
    \/ get_all_orders_admin(r)
    \/ get_all_payments_for_admin(r)
    \/ respond(r)

\* requests executed one after another
StartSerial == \E q \in Requests : (\A s \in Slots : reqs[s].pc = "idle") /\ Start(1, q)

Next == StartSerial \/ \E r \in Slots : Step(r)

Spec == Init /\ [][Next]_vars

\* requests executed one after another, any of which may lose its database
\* connection at an await
NextFault == Next \/ \E r \in Slots : session_error(r)

FaultSpec == Init /\ [][NextFault]_vars

\* Overlapping requests: the handlers that check and then insert (add_to_cart,
\* the two order creations, initiate_payment), issued by one user and
\* interleaved at their awaits
ConcRequests ==
    {q \in Requests : q.user = 1 /\ q.op \in {"add", "from_cart", "create", "initiate"}}

StartConcurrent == \E r \in Slots, q \in ConcRequests : Start(r, q)

StepConc(r) ==
    \/ add_to_cart_purchased(r)
    \/ add_to_cart_cart(r)
    \/ add_to_cart_flush(r)
    \/ add_to_cart_commit(r)
    \/ create_order_from_cart_cart(r)
    \/ create_order_from_cart_purchased(r)
    \/ create_order_from_cart_movies(r)
    \/ create_order_from_cart_flush(r)
    \/ create_order_from_cart_commit(r)
    \/ create_order_purchased(r)
    \/ create_order_movies(r)
    \/ create_order_flush(r)
    \/ create_order_commit(r)
    \/ initiate_payment(r)
    \/ respond(r)

NextConc == StartConcurrent \/ \E r \in Slots : StepConc(r)

ConcSpec == Init /\ [][NextConc]_vars

\* A client whose requests run one after another, and the payment provider,
\* which posts its webhook after the client has received a response and
\* before the client's next request
FlowRequests ==
    {q \in Requests : q.user = 1
                      /\ q.op \in {"add", "from_cart", "create", "cancel", "initiate"}}

WebhookRequests == {q \in Requests : q.op = "webhook"}

StartClient == reqs[2].pc = "idle" /\ \E q \in FlowRequests : Start(1, q)

StartWebhook == reqs[1].pc = "done" /\ \E q \in WebhookRequests : Start(2, q)

StepClient ==
    \/ add_to_cart_purchased(1)
    \/ add_to_cart_cart(1)
    \/ add_to_cart_flush(1)
    \/ add_to_cart_commit(1)
    \/ create_order_from_cart_cart(1)
    \/ create_order_from_cart_purchased(1)
    \/ create_order_from_cart_movies(1)
    \/ create_order_from_cart_flush(1)
    \/ create_order_from_cart_commit(1)
    \/ create_order_purchased(1)
    \/ create_order_movies(1)
    \/ create_order_flush(1)
    \/ create_order_commit(1)
    \/ cancel_order(1)
    \/ initiate_payment(1)
    \/ reqs[2].pc = "idle" /\ respond(1)

StepProvider == mock_payment_webhook(2) \/ respond(2)

NextFlow == StartClient \/ StartWebhook \/ StepClient \/ StepProvider

FlowSpec == Init /\ [][NextFlow]_vars

\* The account endpoints, starting from empty account tables
AccountInit == EmptyStore /\ accounts = NoAccounts

NextAccount ==
    \E u \in Users :
        \/ \E strong \in BOOLEAN : register_user(u, strong)
        \/ resend_activation(u)
        \/ \E password_ok \in BOOLEAN : login(u, password_ok)
        \/ logout(u)
        \/ \E comparable \in BOOLEAN : activate_user(u, comparable)
        \/ activate_user_admin(u)
        \/ token_expires(u)

AccountSpec == AccountInit /\ [][NextAccount]_vars

\* ================================================================== claims
Done(q, op) == q.pc = "done" /\ q.op = op

\* request r takes the step that ends handler op
Finishes(r, op) == reqs[r].op = op /\ Running(reqs[r]) /\ reqs'[r].pc = "done"

\* C1: with requests executed one after another, an initiate on the caller's
\* pending order either creates the order's pending Payment or, when one
\* exists, is rejected with "Payment already initiated"; the second of two
\* calls in a row is therefore rejected and the order has exactly one pending
\* Payment after either call.
C1_SecondInitiateRejected ==
    \A r \in Slots :
        LET q == reqs[r] IN
        (Done(q, "initiate") /\ OwnOrder(q.user, q.oid) /\ orders[q.oid].status = "pending")
        => /\ Cardinality(PendingPayments(q.oid)) = 1
           /\ \/ q.result.code = 200
              \/ q.result = Http(400, "Payment already initiated")

\* C2: two overlapping initiate requests for the same pending order both get
\* past the order guard and leave the order with a pending Payment (two, when
\* both ran the existing-payment query before either committed).
C2_RacingInitiatesCreatePayments ==
    \A r1, r2 \in Slots :
        LET q1 == reqs[r1] q2 == reqs[r2] IN
        (/\ r1 # r2 /\ Done(q1, "initiate") /\ Done(q2, "initiate")
         /\ q1.user = q2.user /\ q1.oid = q2.oid
         /\ OwnOrder(q1.user, q1.oid) /\ orders[q1.oid].status = "pending")
        => /\ PendingPayments(q1.oid) # {}
           /\ q1.result.code # 400 \/ q1.result.detail = "Payment already initiated"
           /\ q2.result.code # 400 \/ q2.result.detail = "Payment already initiated"

\* C3: a cancel of the caller's own order either succeeds with 204, the order
\* having been pending and now being canceled, or fails with 400 on an order
\* that is paid or canceled and stays so.
C3_CancelOnlyPending ==
    \A r \in Slots :
        LET q == reqs[r] IN
        (Done(q, "cancel") /\ OwnOrder(q.user, q.oid))
        => \/ q.result.code = 204 /\ orders[q.oid].status = "canceled"
           \/ /\ q.result = Http(400, "Cannot cancel paid/canceled order")
              /\ orders[q.oid].status \in {"paid", "canceled"}

\* C4: no order is ever deleted, and an order that is paid or canceled keeps
\* its status in every step; only a pending order may change status.
C4_TerminalStatuses ==
    [][\A i \in 1..Len(orders) :
          /\ i <= Len(orders')
          /\ orders[i].status \in {"paid", "canceled"}
               => orders'[i].status = orders[i].status]_vars

\* a cancel has been refused on the caller's paid order
C4_Witness ==
    \E r \in Slots :
        LET q == reqs[r] IN
        /\ Done(q, "cancel") /\ OwnOrder(q.user, q.oid)
        /\ orders[q.oid].status = "paid" /\ q.result.code = 400

\* C5: every order's total_amount is the sum of its items' price_at_order,
\* and no step changes the items or the total of an existing order.
C5_TotalIsSnapshotSum ==
    /\ [](\A i \in 1..Len(orders) :
            orders[i].total_amount = SumPrices(orders[i].items, DOMAIN orders[i].items))
    /\ [][\A i \in 1..Len(orders) :
            /\ i <= Len(orders')
            /\ orders'[i].items = orders[i].items
            /\ orders'[i].total_amount = orders[i].total_amount]_vars

\* an order of two movies exists and a price update of one of them was handled
C5_Witness ==
    \E i \in 1..Len(orders), r \in Slots :
        /\ Cardinality(DOMAIN orders[i].items) = 2
        /\ Done(reqs[r], "update_movie")
        /\ reqs[r].movie \in DOMAIN orders[i].items

\* C6: every step of a create_from_cart request either is its successful
\* commit, which appends the user's new order with its items and leaves the
\* user's cart without items, or changes nothing in the database (a failure at
\* any step, after the flush included, persists nothing).
C6_CheckoutAtomic ==
    [][\A r \in Slots :
          LET q == reqs[r] IN
          (q.op = "from_cart" /\ Running(q) /\ reqs'[r] # q)
          => IF reqs'[r].pc = "done" /\ reqs'[r].result.code = 201
             THEN /\ Len(orders') = Len(orders) + 1
                  /\ orders'[Len(orders')].user = q.user
                  /\ \A m \in Catalog : cartItems'[q.user][m] = 0
             ELSE UNCHANGED db]_vars

\* C7: when create_from_cart has answered 201 the user's cart holds no item.
C7_CartEmptyAfterCheckout ==
    \A r \in Slots :
        LET q == reqs[r] IN
        (Done(q, "from_cart") /\ q.result.code = 201) => CartMovies(q.user) = {}

C9_AddPurchasedRejected ==
    [][\A r \in Slots :
          LET q == reqs[r] IN
          (q.pc = "add_purchased" /\ reqs'[r] # q /\ PurchasedRows(q.user, q.movie) >= 1)
          => /\ reqs'[r].pc = "done"
             /\ reqs'[r].result = Http(400, "Movie already purchased")
             /\ UNCHANGED <<carts, cartItems>>]_vars

C11_CartItemUnique ==
    \A u \in Users, m \in Catalog : cartItems[u][m] <= 1

\* C12: every user has at most one Cart row in every state, overlapping
\* first adds included, and a Cart row appears only in the step that
\* completes an add of that user with 200, for a user who had none.
C12_OneCartPerUser ==
    /\ [](\A u \in Users : carts[u] <= 1)
    /\ [][\A u \in Users :
            carts'[u] # carts[u]
            => /\ carts[u] = 0 /\ carts'[u] = 1
               /\ \E r \in Slots :
                    /\ Finishes(r, "add") /\ reqs[r].user = u
                    /\ reqs'[r].result.code = 200]_vars

\* of two overlapping first adds of a user one has committed the Cart and
\* the other has failed at its own Cart insert
C12_Witness ==
    \E r \in Slots :
        LET q == reqs[r] IN
        /\ Done(q, "add") /\ q.result = ServerError
        /\ q.movie \in Catalog /\ PurchasedRows(q.user, q.movie) = 0
        /\ carts[q.user] = 1

C14_InitiateOnSettledOrderRejected ==
    [][\A r \in Slots :
          LET q == reqs[r] IN
          (/\ q.op = "initiate" /\ Running(q) /\ reqs'[r] # q
           /\ OwnOrder(q.user, q.oid)
           /\ orders[q.oid].status \in {"paid", "canceled"})
          => /\ reqs'[r].pc = "done"
             /\ reqs'[r].result =
                  Http(400, "Cannot initiate payment for paid/canceled order")
             /\ payments' = payments]_vars

\* an initiate on the caller's paid order has been refused
C14_Witness ==
    \E r \in Slots :
        LET q == reqs[r] IN
        /\ Done(q, "initiate") /\ OwnOrder(q.user, q.oid)
        /\ orders[q.oid].status = "paid"
        /\ q.result = Http(400, "Cannot initiate payment for paid/canceled order")
        /\ payments = <<>>

\* C15: an answered initiate on the caller's pending order that had no
\* pending Payment has succeeded, and the order then has exactly one Payment,
\* which is pending, belongs to the caller and has the order's total_amount.
C15_InitiateCreatesPayment ==
    \A r \in Slots :
        LET q == reqs[r] IN
        (/\ Done(q, "initiate") /\ OwnOrder(q.user, q.oid)
         /\ orders[q.oid].status = "pending"
         /\ q.result # Http(400, "Payment already initiated"))
        => /\ q.result.code = 200
           /\ Cardinality({i \in 1..Len(payments) : payments[i].order_id = q.oid}) = 1
           /\ \A i \in 1..Len(payments) :
                payments[i].order_id = q.oid
                => /\ payments[i].user_id = q.user
                   /\ payments[i].status = "pending"
                   /\ payments[i].amount = orders[q.oid].total_amount

\* C16: a webhook whose payment_id is missing or whose status is not one of
\* successful, canceled, refunded is answered 400; one whose payment_id
\* matches no Payment is answered 404; neither changes any Payment.
C16_WebhookRejectsBadPayload ==
    [][\A r \in Slots :
          LET q == reqs[r]
              invalid == q.oid = 0 \/ q.st \notin {"successful", "canceled", "refunded"}
              unknown == q.oid \notin 1..Len(payments) IN
          (q.op = "webhook" /\ Running(q) /\ reqs'[r] # q /\ (invalid \/ unknown))
          => /\ reqs'[r].pc = "done"
             /\ reqs'[r].result.code = IF invalid THEN 400 ELSE 404
             /\ payments' = payments]_vars

\* a webhook naming a payment id with the status "bogus" has been refused
C16_Witness ==
    \E r \in Slots :
        LET q == reqs[r] IN
        /\ Done(q, "webhook") /\ q.oid = 1 /\ q.st = "bogus"
        /\ q.result = Http(400, "Missing or invalid payment_id or status")

\* C17: once the client's initiate on their pending order has been answered,
\* so that the order has its Payment, a webhook with a valid payload for
\* Payment 1 is answered 200 "Payment status updated" and Payment 1 has the
\* payload's status.
C17_WebhookUpdatesStatus ==
    LET q1 == reqs[1] q2 == reqs[2] IN
    (/\ Done(q1, "initiate") /\ OwnOrder(q1.user, q1.oid)
     /\ orders[q1.oid].status = "pending"
     /\ Done(q2, "webhook") /\ q2.oid = 1
     /\ q2.st \in {"successful", "canceled", "refunded"})
    => /\ q2.result = Http(200, "Payment status updated")
       /\ Len(payments) >= 1
       /\ payments[1].status = q2.st

C19_RemoveNotInCartIs404 ==
    [][\A r \in Slots :
          LET q == reqs[r]
              held == q.movie \in Catalog /\ cartItems[q.user][q.movie] > 0 IN
          Finishes(r, "remove")
          => IF held
             THEN /\ reqs'[r].result = Http(200, "Movie removed from cart")
                  /\ cartItems' = [cartItems EXCEPT ![q.user][q.movie] = @ - 1]
                  /\ carts' = carts
             ELSE /\ reqs'[r].result = Http(404, "Movie not in cart")
                  /\ cartItems' = cartItems
                  /\ carts' = carts]_vars

\* C20: with requests executed one after another, create_from_selection is
\* refused with 400 "No movies selected." for an empty list, else with 400
\* "All movies already purchased." when every id is in an OrderItem of the
\* user, else with 404 "No available movies found." when none of the
\* remaining ids is in the catalog; create_from_cart of a non-empty cart whose
\* movies are all purchased is refused with 400 "All movies already
\* purchased"; none of these requests writes an order.
C20_SelectionGuardOrder ==
    [][\A r \in Slots :
          LET q == reqs[r]
              ids == {q.ids[i] : i \in 1..Len(q.ids)}
              remaining == ids \ PurchasedBy(q.user)
              done == reqs'[r].pc = "done"
              res == reqs'[r].result IN
          (Running(q) /\ reqs'[r] # q)
          => /\ (q.op = "create" /\ q.ids = <<>>)
                => done /\ res = Http(400, "No movies selected.") /\ orders' = orders
             /\ (q.op = "create" /\ q.ids # <<>> /\ remaining = {})
                => /\ done /\ res = Http(400, "All movies already purchased.")
                   /\ orders' = orders
             /\ (q.op = "create" /\ remaining # {} /\ remaining \cap DOMAIN movies = {})
                => /\ reqs'[r].pc \in {"co_movies", "done"}
                   /\ done => res = Http(404, "No available movies found.")
                   /\ orders' = orders
             /\ (/\ q.op = "from_cart" /\ carts[q.user] = 1 /\ CartMovies(q.user) # {}
                 /\ CartMovies(q.user) \subseteq PurchasedBy(q.user))
                => /\ reqs'[r].pc \in {"fc_purchased", "done"}
                   /\ done => res = Http(400, "All movies already purchased")
                   /\ orders' = orders]_vars

\* a selection of a purchased movie and an unknown id was refused with 404
C20_Witness ==
    \E r \in Slots :
        LET q == reqs[r] IN
        /\ Done(q, "create") /\ q.ids = <<1, 3>>
        /\ 1 \in PurchasedBy(q.user)
        /\ q.result = Http(404, "No available movies found.")

\* C21: the order appended by a successful create_from_cart is paid and the
\* order appended by a successful create_from_selection is pending.
C21_InitialStatusByPath ==
    [][\A r \in Slots :
          LET q == reqs[r] IN
          (/\ q.op \in {"from_cart", "create"} /\ Finishes(r, q.op)
           /\ reqs'[r].result.code = 201)
          => /\ Len(orders') = Len(orders) + 1
             /\ orders'[Len(orders')].status =
                  IF q.op = "from_cart" THEN "paid" ELSE "pending"]_vars

\* a checkout from the cart and then one from a selection have both succeeded
C21_Witness ==
    \E r \in Slots :
        LET q == reqs[r] IN
        /\ Done(q, "create") /\ q.result.code = 201
        /\ Len(orders) = 2
        /\ orders[1].status = "paid" /\ orders[2].status = "pending"

\* C22: a cancel or an initiate that names an order id which does not exist
\* or whose order belongs to another user is answered 404 "Order not found"
\* and writes no order and no payment; and no step of a request changes the
\* status of an order of a user other than the caller.
C22_OwnershipIsolation ==
    [][\A r \in Slots :
          LET q == reqs[r]
              own == q.oid \in 1..Len(orders) /\ orders[q.oid].user = q.user IN
          (Running(q) /\ reqs'[r] # q)
          => /\ (q.op \in {"cancel", "initiate"} /\ ~own)
                => /\ reqs'[r].pc = "done"
                   /\ reqs'[r].result = Http(404, "Order not found")
                   /\ orders' = orders /\ payments' = payments
             /\ \A i \in 1..Len(orders) :
                  orders[i].user # q.user
                  => i <= Len(orders') /\ orders'[i].status = orders[i].status]_vars

\* a cancel of another user's existing order has been answered 404
C22_Witness ==
    \E r \in Slots :
        LET q == reqs[r] IN
        /\ Done(q, "cancel") /\ q.oid \in 1..Len(orders)
        /\ orders[q.oid].user # q.user
        /\ q.result = Http(404, "Order not found")

\* C23: a request for the admin order list or the admin payment list by a
\* caller who is neither administrator nor moderator is answered 403.
C23_AdminListsForbidden ==
    [][\A r \in Slots :
          LET q == reqs[r] IN
          (/\ q.op \in {"admin_orders", "admin_payments"} /\ Finishes(r, q.op)
           /\ UserGroupOf[q.user] \notin {"ADMIN", "MODERATOR"})
          => reqs'[r].result.code = 403]_vars

\* C24: a login with correct credentials for a user who is not active is
\* answered 403 and stores no refresh token; a login is answered 200 only
\* for an active user; and is_active turns true only in an activation with
\* the user's existing unexpired token or in the admin activate-user
\* operation.
C24_LoginOnlyWhileActive ==
    [][\A u \in Users :
          LET a == accounts.last' IN
          /\ (/\ accounts' # accounts /\ a.op = "login" /\ a.user = u
              /\ a.password_ok /\ accounts.exists[u] /\ ~accounts.is_active[u])
             => a.code = 403 /\ accounts.refresh' = accounts.refresh
          /\ (accounts' # accounts /\ a.op = "login" /\ a.user = u /\ a.code = 200)
             => accounts.is_active[u]
          /\ (accounts.is_active'[u] /\ ~accounts.is_active[u])
             => /\ a.user = u /\ a.code = 200
                /\ \/ a.op = "activate" /\ accounts.activation[u] = "valid"
                   \/ a.op = "activate_admin"]_vars

\* a registered, not yet activated user has been refused at login
C24_Witness ==
    /\ accounts.last = Answer("login", accounts.last.user, TRUE, 403)
    /\ accounts.last.user \in Users
    /\ accounts.exists[accounts.last.user]
    /\ ~accounts.is_active[accounts.last.user]
    /\ accounts.refresh[accounts.last.user] = 0

\* C25: in every reachable state, overlapping order creations of one user
\* included, no user has two OrderItems for the same movie.
C25_NoDuplicatePurchase ==
    \A u \in Users, m \in MovieIds : PurchasedRows(u, m) <= 1

\* C26: no step deletes an order or changes an order's user, total_amount or
\* items; a Payment appears only in the step that completes an initiate and
\* changes only in a step of a webhook request, and then only in its status;
\* and the steps of add, remove, clear and list requests change no order and
\* no payment.
C26_FrameOfOrdersAndPayments ==
    [][/\ \A i \in 1..Len(orders) :
            /\ i <= Len(orders')
            /\ orders'[i].user = orders[i].user
            /\ orders'[i].total_amount = orders[i].total_amount
            /\ orders'[i].items = orders[i].items
       /\ Len(payments') >= Len(payments)
       /\ Len(payments') > Len(payments) => \E r \in Slots : Finishes(r, "initiate")
       /\ \A i \in 1..Len(payments) :
            payments'[i] # payments[i]
            => /\ \E r \in Slots : reqs[r].op = "webhook" /\ reqs'[r] # reqs[r]
               /\ payments'[i] = [payments[i] EXCEPT !.status = payments'[i].status]
       /\ \A r \in Slots :
            (reqs[r].op \in {"add", "remove", "clear", "list"} /\ reqs'[r] # reqs[r])
            => orders' = orders /\ payments' = payments]_vars

\* with two orders on record, the second created after the first, the owner
\* has cleared their cart
C26_Witness ==
    \E r \in Slots :
        LET q == reqs[r] IN
        /\ Done(q, "clear") /\ q.result.code = 200
        /\ Len(orders) = 2 /\ orders[1].user = q.user

\* C27: the order appended by a successful create_from_selection has exactly
\* one item per distinct requested id that is in no OrderItem of the user and
\* is in the catalog, and the request succeeds whenever such an id exists.
C27_SelectionItems ==
    [][\A r \in Slots :
          LET q == reqs[r]
              ids == {q.ids[i] : i \in 1..Len(q.ids)}
              kept == (ids \ PurchasedBy(q.user)) \cap DOMAIN movies IN
          Finishes(r, "create")
          => IF kept # {}
             THEN /\ reqs'[r].result.code = 201
                  /\ Len(orders') = Len(orders) + 1
                  /\ orders'[Len(orders')].user = q.user
                  /\ DOMAIN orders'[Len(orders')].items = kept
             ELSE reqs'[r].result.code # 201 /\ orders' = orders]_vars

\* a selection of a purchased and a new movie has produced an order of the
\* new movie alone
C27_Witness ==
    \E r \in Slots :
        LET q == reqs[r] IN
        /\ Done(q, "create") /\ q.result.code = 201 /\ q.ids = <<1, 2>>
        /\ Len(orders) = 2
        /\ orders[1].user = q.user /\ DOMAIN orders[1].items = {1}
        /\ orders[2].user = q.user /\ DOMAIN orders[2].items = {2}

C29_CanceledOrderSuccessfulPayment ==
    LET q1 == reqs[1] q2 == reqs[2] IN
    (Done(q1, "cancel") /\ OwnOrder(q1.user, q1.oid) /\ orders[q1.oid].status # "paid")
    => /\ orders[q1.oid].status = "canceled"
       /\ (/\ Done(q2, "webhook") /\ q2.st = "successful"
           /\ q2.oid \in 1..Len(payments))
          => payments[q2.oid].status = "successful"

\* C30: an initiate on the caller's pending order that has no pending
\* Payment, whatever other Payments the order has, is answered 200 and adds
\* one Payment.
C30_InitiateAgainAfterWebhook ==
    [][\A r \in Slots :
          LET q == reqs[r] IN
          (/\ Finishes(r, "initiate") /\ OwnOrder(q.user, q.oid)
           /\ orders[q.oid].status = "pending" /\ PendingPayments(q.oid) = {})
          => /\ reqs'[r].result.code = 200
             /\ Len(payments') = Len(payments) + 1]_vars

====
